---- MODULE Spec2Model ----
(***************************************************************************)
(* The conversation controller and session store of Neby (src/App.tsx,     *)
(* second App component, lines 463-640), with the session backend of       *)
(* services/firebase (src/unnamed/part_003) and the generation gateway of  *)
(* services/geminiService (src/unnamed/part_002, lines 1-301).             *)
(*                                                                         *)
(* React state (useState) is one variable per hook.  An event handler is   *)
(* one action: it reads the state of the render it was created in, which   *)
(* for a user event is the current state.  An async function is a closure: *)
(* what it captured at its start is kept in its record of `turns`, and     *)
(* each of its awaits is a point where other actions interleave.           *)
(* Message.timestamp is not modelled: no code path reads it.  The choice   *)
(* of the model in the sidebar is an input of the send and edit actions.   *)
(* Of the live overlay (App.tsx 347-460) the audio pipeline and its        *)
(* teardown are modelled, not the audio it carries.                        *)
(***************************************************************************)
EXTENDS Integers, Sequences, FiniteSets, TLC

\* The handlers of one run that read the clock (Date.now()): beyond that many
\* no such handler is taken, which bounds the sessions and turns of a run.
MaxEvents == 2
\* The chunks a gateway stream delivers before it ends.
MaxChunks == 2
\* The not-done answers of a video job.
MaxPolls == 2
\* The times the live overlay is opened.
MaxLive == 2
\* sessions listed and calls started while handlers read the same millisecond
MaxListed == 4
MaxCalls == 2

\* The clock readings of two successive handlers differ by at least this many
\* milliseconds (ids are Date.now() and Date.now() + 1).
EventGaps == {2}

VARIABLES
    configured,        \* firebase.ts isConfigured
    denied,            \* Firestore refuses the writes of the sessions (permission-denied)
    now,               \* last value read from Date.now()
    authChecked,       \* App: useState authChecked
    authStore,         \* localStorage 'neby_auth_user'
    user,              \* App: useState user
    subCur,            \* currentSessionId captured by the subscription effect's callback
    fed,               \* the subscription of `user` has called back at least once
    feedPending,       \* a Firestore snapshot of the subscribed collection is due
    sessions,          \* App: useState sessions
    currentSessionId,  \* App: useState currentSessionId
    isLoading,         \* App: useState isLoading
    store,             \* per-identity session lists of the backend
    turns,             \* the handleSendMessage / handleEditMessage calls, running or ended
    titleCalls,        \* generateTitle promises not yet resolved
    speechCalls,       \* generateSpeech promises of ChatMessage.handleSpeak not yet settled
    isLiveMode,        \* App: useState isLiveMode
    lives              \* the effects of the LiveSessionOverlay instances mounted so far

vars == <<configured, denied, now, authChecked, authStore, user, subCur, fed, feedPending,
          sessions, currentSessionId, isLoading, store, turns, titleCalls, speechCalls,
          isLiveMode, lives>>

\* null (currentSessionId) and undefined (a field a Firestore document lacks)
Null == 0
Undefined == 0 - 1

\* ---------------------------------------------------------------- identities
NoUser == [anon |-> FALSE, n |-> Null]
\* a registered account (AuthScreen.mapFirebaseUser leaves isAnonymous unset)
Alice == [anon |-> FALSE, n |-> 1]
\* A guest identity whose id does not depend on the clock.
GuestFixed(t) == [anon |-> TRUE, n |-> 1]

\* id 'guest-' + Date.now()
Guest(t) == [anon |-> TRUE, n |-> t]

\* firebaseService routes to the local-storage mock when Firebase is not
\* configured or the identity id starts with 'guest-'
IsMock(uid) == ~configured \/ uid.anon

\* ---------------------------------------------------------------- sequences
Last(s) == s[Len(s)]

RECURSIVE FilterSeq(_, _)
\* s.filter(x => x.id !== id)
FilterSeq(s, id) ==
    IF s = <<>> THEN <<>>
    ELSE IF Head(s).id = id THEN FilterSeq(Tail(s), id)
         ELSE <<Head(s)>> \o FilterSeq(Tail(s), id)

\* s.findIndex(x => x.id === id), 0 when there is none
FindIndex(s, id) ==
    IF \E i \in 1..Len(s) : s[i].id = id
    THEN CHOOSE i \in 1..Len(s) : s[i].id = id /\ \A j \in 1..(i-1) : s[j].id # id
    ELSE 0

HasId(s, id) == \E i \in 1..Len(s) : s[i].id = id

\* ---------------------------------------------------------------- sessions
DefaultTitle == "New Chat"
CosmicTitle == "New Cosmic Chat"
ImageTitle == "Image Analysis"
VideoTitle == "Video Analysis"

\* { id: Date.now().toString(), title, messages: [], createdAt: Date.now() }
NewSession(t, title) == [id |-> t, title |-> title, messages |-> <<>>, createdAt |-> t]

\* sessions.find(s => s.id === currentSessionId)?.messages, [] when not found
MessagesOf(ss, sid) ==
    IF HasId(ss, sid) THEN ss[FindIndex(ss, sid)].messages ELSE <<>>

\* ---------------------------------------------------------------- backend
\* The stored list of an identity: localStorage `neby_sessions_${userId}` in
\* the mock, the documents of users/{userId}/sessions in Firestore (key is the
\* document id, data the document).
Load(st, uid) == IF uid \in DOMAIN st THEN st[uid] ELSE <<>>

\* A store that keeps one list under one key for all identities.
PutShared(st, uid, list) == [u \in DOMAIN st \cup {uid} |-> list]

Put(st, uid, list) ==
    [u \in DOMAIN st \cup {uid} |-> IF u = uid THEN list ELSE st[u]]

KeyIndex(list, key) ==
    IF \E i \in 1..Len(list) : list[i].key = key
    THEN CHOOSE i \in 1..Len(list) : list[i].key = key /\ \A j \in 1..(i-1) : list[j].key # key
    ELSE 0

\* A property that is present with the value undefined, as videoUri is in the
\* user message handleSendMessage builds for a message without a video
\* (App.tsx 618); "" stands for a property that is absent.
UndefinedProp == "undefined"

HasUndefined(s) == \E k \in 1..Len(s.messages) : s.messages[k].videoUri = UndefinedProp

\* JSON.parse(JSON.stringify(session)): properties that are undefined are dropped
Stringify(s) ==
    [s EXCEPT !.messages =
        [k \in 1..Len(s.messages) |->
            IF s.messages[k].videoUri = UndefinedProp
            THEN [s.messages[k] EXCEPT !.videoUri = ""] ELSE s.messages[k]]]

\* A write Firestore refuses: setDoc and deleteDoc reject, the catch of the
\* service logs (part_003 177-180, 189-191, 199-202) and nothing is written.
Refused(uid) == ~IsMock(uid) /\ denied

\* A saveSession the backend rejects
Rejected(uid, s) == Refused(uid) \/ (~IsMock(uid) /\ HasUndefined(s))

\* saveSession: replace the stored session of that id, or add it.  The mock
\* (part_003 91-97) stores the JSON text: findIndex, then replace or push.
\* Firestore (part_003 171-181): setDoc(doc(..., session.id), session, {merge}),
\* which rejects data that holds an undefined value (getFirestore is called
\* without ignoreUndefinedProperties, part_003 47); the rejection is logged
\* and rethrown to a promise nobody awaits, and nothing is written.
StoreSave(st, uid, s) ==
    LET list == Load(st, uid)
        i == KeyIndex(list, s.id)
        e == [key |-> s.id, data |-> Stringify(s)]
    IN IF Rejected(uid, s) THEN st
       ELSE Put(st, uid, IF i > 0 THEN [list EXCEPT ![i] = e] ELSE Append(list, e))

\* updateSessionTitle: the mock changes the title of a stored session and does
\* nothing when there is none; Firestore's setDoc(..., {title}, {merge: true})
\* creates a document that holds the title only
StoreTitle(st, uid, sid, title) ==
    LET list == Load(st, uid)
        i == KeyIndex(list, sid)
    IN IF Refused(uid) THEN st
       ELSE IF i > 0 THEN Put(st, uid, [list EXCEPT ![i].data.title = title])
       ELSE IF IsMock(uid) THEN st
       ELSE Put(st, uid, Append(list,
                [key |-> sid,
                 data |-> [id |-> Undefined, title |-> title,
                           messages |-> <<>>, createdAt |-> Undefined]]))

RECURSIVE DropKey(_, _)
DropKey(list, key) ==
    IF list = <<>> THEN <<>>
    ELSE IF Head(list).key = key THEN DropKey(Tail(list), key)
         ELSE <<Head(list)>> \o DropKey(Tail(list), key)

\* A deleteSession that leaves the stored list as it is.
StoreDeleteNothing(st, uid, sid) == st

\* deleteSession: filter / deleteDoc
StoreDelete(st, uid, sid) ==
    IF uid \in DOMAIN st /\ ~Refused(uid) THEN Put(st, uid, DropKey(st[uid], sid)) ELSE st

\* the orders sessions.sort((a, b) => b.createdAt - a.createdAt) can leave the
\* documents in: newest first; a document without createdAt compares as NaN
\* and may end anywhere
SortedDesc(list) ==
    LET n == Len(list)
        Perms == {p \in [1..n -> 1..n] : \A i, j \in 1..n : i # j => p[i] # p[j]}
        Ok(p) == \A i, j \in 1..n :
                    (i < j /\ list[p[i]].data.createdAt # Undefined
                           /\ list[p[j]].data.createdAt # Undefined)
                    => list[p[i]].data.createdAt >= list[p[j]].data.createdAt
    IN {[i \in 1..n |-> list[p[i]].data] : p \in {q \in Perms : Ok(q)}}

\* what subscribeToSessions hands to its callback: the mock the stored list in
\* stored order, Firestore the snapshot sorted by createdAt descending
Loaded(st, uid) ==
    LET list == Load(st, uid)
    IN IF IsMock(uid) THEN {[i \in 1..Len(list) |-> list[i].data]}
       ELSE SortedDesc(list)

\* A write that changes the subscribed Firestore collection makes a snapshot
\* due; the mock never calls back after subscribing.
Touch(uid, st) == (~IsMock(uid) /\ uid = user /\ st # store)

\* ---------------------------------------------------------------- session feed
\* !x of JavaScript for an id
Falsy(x) == x = Null \/ x = Undefined

\* A callback that keeps the list in memory once there is one.
CallbackKeepsList(uid, loaded, closureCur, t, notify) ==
    IF Len(loaded) = 0
    THEN /\ sessions' = <<NewSession(t, CosmicTitle)>>
         /\ currentSessionId' = t
         /\ store' = StoreSave(store, uid, NewSession(t, CosmicTitle))
         /\ feedPending' = notify
    ELSE /\ sessions' = IF sessions = <<>> THEN loaded ELSE sessions
         /\ currentSessionId' =
                IF Falsy(closureCur) /\ ~HasId(loaded, closureCur)
                THEN Last(loaded).id ELSE currentSessionId
         /\ store' = store
         /\ feedPending' = FALSE

\* The callback of subscribeToSessions (App.tsx 493-503) for the list `loaded`,
\* run for identity uid with the currentSessionId its closure captured; t is
\* Date.now() should it make a session.
Callback(uid, loaded, closureCur, t, notify) ==
    IF Len(loaded) = 0
    THEN /\ sessions' = <<NewSession(t, CosmicTitle)>>
         /\ currentSessionId' = t
         /\ store' = StoreSave(store, uid, NewSession(t, CosmicTitle))
         /\ feedPending' = notify
    ELSE /\ sessions' = loaded
         /\ currentSessionId' =
                IF Falsy(closureCur) /\ ~HasId(loaded, closureCur)
                THEN Last(loaded).id ELSE currentSessionId
         /\ store' = store
         /\ feedPending' = FALSE

\* The effect on [user] (App.tsx 491-505) for a new identity: subscribe; the
\* mock calls back at once with the stored list, Firestore with a snapshot later.
Subscribe(uid, t, readClock) ==
    /\ user' = uid
    /\ subCur' = currentSessionId
    /\ fed' = IsMock(uid)
    /\ IF IsMock(uid)
       THEN \E loaded \in Loaded(store, uid) :
               /\ Callback(uid, loaded, currentSessionId, t, FALSE)
               /\ (readClock \/ Len(loaded) = 0) => t # Null
               /\ now' = IF readClock \/ Len(loaded) = 0 THEN t ELSE now
       ELSE /\ feedPending' = TRUE
            /\ readClock => t # Null
            /\ now' = IF readClock THEN t ELSE now
            /\ UNCHANGED <<sessions, currentSessionId, store>>

\* Mount effects (App.tsx 485-489, 478-483): the stored identity, or a new guest
Mount(t) ==
    /\ ~authChecked
    /\ authChecked' = TRUE
    /\ IF authStore # NoUser
       THEN /\ Subscribe(authStore, t, FALSE)
            /\ UNCHANGED authStore
       ELSE /\ Subscribe(Guest(t), t, TRUE)
            /\ authStore' = Guest(t)
    /\ UNCHANGED <<configured, denied, isLiveMode, lives, isLoading, turns, titleCalls, speechCalls>>

\* A snapshot of the subscribed Firestore collection arrives (part_003 156-163)
FeedNotify(t) ==
    /\ authChecked /\ user # NoUser /\ ~IsMock(user)
    /\ feedPending
    /\ fed' = TRUE
    /\ \E loaded \in Loaded(store, user) :
          /\ Callback(user, loaded, subCur, t, TRUE)
          /\ Len(loaded) = 0 => t # Null
          /\ now' = IF Len(loaded) = 0 THEN t ELSE now
    /\ UNCHANGED <<configured, denied, isLiveMode, lives, authChecked, authStore, user, subCur, isLoading,
                   turns, titleCalls, speechCalls>>

\* handleLogin (App.tsx 507), reached from the Sign In button of a guest
HandleLogin(u, t) ==
    /\ authChecked /\ user.anon
    /\ authStore' = u
    /\ Subscribe(u, t, FALSE)
    /\ UNCHANGED <<configured, denied, isLiveMode, lives, authChecked, isLoading, turns, titleCalls, speechCalls>>

\* handleLogout (App.tsx 508), reached from the Sign out button of an account:
\* setUser(null) and initializeGuest() land in one render
HandleLogout(t) ==
    /\ authChecked /\ user # NoUser /\ ~user.anon
    /\ authStore' = Guest(t)
    /\ Subscribe(Guest(t), t, TRUE)
    /\ UNCHANGED <<configured, denied, isLiveMode, lives, authChecked, isLoading, turns, titleCalls, speechCalls>>

\* ---------------------------------------------------------------- write order
\* What a handler does first: call the backend ("write") or ask React for the
\* new state ("setState").  createNewChat (App.tsx 514) and deleteSession
\* (515) call firebaseService before setSessions; renameSession (519-520)
\* calls setSessions before updateSessionTitle; saveCurrentSession (525-537)
\* and handleUpdateMessage (540) call saveSession inside the updater, before
\* it returns the new state.  No handler awaits the promise of the write.
IssueOrder(op) ==
    IF op = "rename" THEN <<"setState", "write">> ELSE <<"write", "setState">>

\* ---------------------------------------------------------------- failures
\* Where the failure of a call ends.  The calls processGeneration makes are
\* inside its try (App.tsx 570-613).  updateSessionTitle logs the rejection
\* and returns (part_003 189-191).  saveSession and deleteSession log it and
\* throw it again (part_003 177-180, 199-202) into the promise they return,
\* which no caller awaits or gives a catch (App.tsx 497, 514, 515, 535, 540).
Handler(call) ==
    IF call \in {"hasSelectedApiKey", "streamChat", "generateImage", "generateVideo"}
    THEN "processGeneration"
    ELSE IF call = "updateSessionTitle" THEN "updateSessionTitle"
    ELSE "none"

\* ---------------------------------------------------------------- sidebar
\* createNewChat (App.tsx 514)
CreateNewChat(t) ==
    /\ authChecked /\ user # NoUser
    /\ now' = t
    /\ store' = StoreSave(store, user, NewSession(t, DefaultTitle))
    /\ feedPending' = (feedPending \/ Touch(user, store'))
    /\ sessions' = Append(sessions, NewSession(t, DefaultTitle))
    /\ currentSessionId' = t
    /\ UNCHANGED <<configured, denied, isLiveMode, lives, authChecked, authStore, user, subCur, fed, isLoading,
                   turns, titleCalls, speechCalls>>

\* deleteSession (App.tsx 515) from the trash button of a listed session
DeleteSession(id) ==
    /\ authChecked /\ user # NoUser
    /\ HasId(sessions, id)
    /\ store' = StoreDelete(store, user, id)
    /\ feedPending' = (feedPending \/ Touch(user, store'))
    /\ sessions' = FilterSeq(sessions, id)
    /\ currentSessionId' =
          IF currentSessionId = id
          THEN (IF Len(FilterSeq(sessions, id)) > 0
                THEN Last(FilterSeq(sessions, id)).id ELSE Null)
          ELSE currentSessionId
    /\ UNCHANGED <<configured, denied, isLiveMode, lives, now, authChecked, authStore, user, subCur, fed, isLoading,
                   turns, titleCalls, speechCalls>>

\* setSessions(prev => prev.map(s => s.id === id ? { ...s, title } : s))
Retitle(ss, id, title) ==
    [i \in 1..Len(ss) |-> IF ss[i].id = id THEN [ss[i] EXCEPT !.title = title] ELSE ss[i]]

\* onSelectSession = setCurrentSessionId (App.tsx 662)
SelectSession(id) ==
    /\ authChecked
    /\ HasId(sessions, id) /\ id # currentSessionId
    /\ currentSessionId' = id
    /\ UNCHANGED <<configured, denied, isLiveMode, lives, now, authChecked, authStore, user, subCur, fed, feedPending,
                   sessions, isLoading, store, turns, titleCalls, speechCalls>>

\* renameSession (App.tsx 517-521) with the title the sidebar's saveEditing
\* passes: trimmed, not blank, not the present title (part_001 58-66)
RenameTitles == {"Trip"}
RenameSession(id, title) ==
    /\ authChecked /\ user # NoUser
    /\ \E i \in 1..Len(sessions) : sessions[i].id = id /\ sessions[i].title # title
    /\ sessions' = Retitle(sessions, id, title)
    /\ store' = StoreTitle(store, user, id, title)
    /\ feedPending' = (feedPending \/ Touch(user, store'))
    /\ UNCHANGED <<configured, denied, isLiveMode, lives, now, authChecked, authStore, user, subCur, fed,
                   currentSessionId, isLoading, turns, titleCalls, speechCalls>>

\* ---------------------------------------------------------------- configuration
\* config.model is read when a turn starts and nowhere else (App.tsx 558, 638):
\* the model picked in the sidebar (part_001 140) is an input of the send and
\* edit actions instead of a variable.
\* AVAILABLE_MODELS (types.ts 82-124); gemini-3-pro-preview behaves as the flash
\* model in every test the controller makes on the identifier
FlashModel == "gemini-3-flash-preview"
ImageModel == "gemini-3-pro-image-preview"
VeoModel == "veo-3.1-fast-generate-preview"
Models == {FlashModel, ImageModel, VeoModel}

\* cfg.model.includes(sub)
Includes(m, sub) ==
    \/ sub = "image" /\ m = ImageModel
    \/ sub = "veo" /\ m = VeoModel

\* ---------------------------------------------------------------- messages
\* Message (types.ts 19-31); an absent flag is FALSE, an absent videoUri or
\* audioBase64 "".
\* The user message of handleSendMessage (App.tsx 618)
UserMsg(t, text, nimg, video) ==
    [id |-> t, role |-> "user", content |-> text,
     isLoading |-> FALSE, isPainting |-> FALSE, isDirecting |-> FALSE,
     images |-> nimg, videoUri |-> IF video THEN "Attached Video" ELSE UndefinedProp,
     groundingSources |-> FALSE, audioBase64 |-> ""]

ModelMsg(id, content, flag, nimg, uri, grounding) ==
    [id |-> id, role |-> "model", content |-> content,
     isLoading |-> (flag = "isLoading"), isPainting |-> (flag = "isPainting"),
     isDirecting |-> (flag = "isDirecting"),
     images |-> nimg, videoUri |-> uri, groundingSources |-> grounding,
     audioBase64 |-> ""]

InProgress(m) == m.isLoading \/ m.isPainting \/ m.isDirecting

\* A setSessions that gives the messages to every session of the list.
SetMessagesOfAll(ss, sid, msgs) ==
    [i \in 1..Len(ss) |-> [ss[i] EXCEPT !.messages = msgs]]

\* setSessions(prev => prev.map(s => s.id === sid ? { ...s, messages } : s))
SetMessages(ss, sid, msgs) ==
    [i \in 1..Len(ss) |-> IF ss[i].id = sid THEN [ss[i] EXCEPT !.messages = msgs] ELSE ss[i]]

\* saveCurrentSession (App.tsx 523-538) as run by a closure that captured
\* identity uid and currentSessionId sid: the session it writes, if any
SavedSession(ss, uid, sid, msgs, title) ==
    LET s == ss[FindIndex(ss, sid)]
    IN [s EXCEPT !.messages = msgs, !.title = IF title # "" THEN title ELSE s.title]

Saves(ss, uid, sid) == uid # NoUser /\ ~Falsy(sid) /\ HasId(ss, sid)

\* A saveCurrentSession that leaves the list in memory as it is.
SaveSessionsNothing(ss, uid, sid, msgs, title) == ss

SaveSessions(ss, uid, sid, msgs, title) ==
    IF Saves(ss, uid, sid)
    THEN [i \in 1..Len(ss) |->
            IF ss[i].id = sid THEN SavedSession(ss, uid, sid, msgs, title) ELSE ss[i]]
    ELSE ss

SaveStore(st, ss, uid, sid, msgs, title) ==
    IF Saves(ss, uid, sid)
    THEN StoreSave(st, uid, SavedSession(ss, uid, sid, msgs, title))
    ELSE st

\* ---------------------------------------------------------------- gateway
\* what the Gateway can raise: a status and a message
NotFoundText == "Requested entity was not found"
Errors ==
    { [status |-> 404, message |-> NotFoundText],
      [status |-> 429, message |-> "quota exceeded"],
      [status |-> 500, message |-> "overloaded"] }

\* the strings of streamChat (part_002 280, 293, 296) and processGeneration,
\* without their leading emoji and line breaks
SafetyNotice == "*The response was filtered by safety settings.*"
RateLimitText == "**Rate Limit Reached**: Please wait."
StreamErrorPrefix == "**Error**: "
CatchPrefix == "Error: "
DirectingText == "Synthesizing cosmic motion (Veo)..."
RenderedText == "Cosmic render complete."
NoImageText == "No image data returned from model."
NoVideoText == "No video URI returned from Gemini Veo"

\* one chunk of generateContentStream: chunk.text, grounding metadata,
\* finishReason === 'SAFETY' (which the Gateway sets on the last chunk only)
Chunks ==
    { [text |-> "a", grounding |-> FALSE, safety |-> FALSE],
      [text |-> "", grounding |-> TRUE, safety |-> FALSE],
      [text |-> "b", grounding |-> FALSE, safety |-> TRUE] }

\* generateTitle(text): the short title the Gateway derives from the text
GenerateTitle(text) == "About " \o text

\* ---------------------------------------------------------------- turns
\* A test of the identifier that does not look at the video.
ActualTypeWithoutVideo(model, videoData) ==
    IF Includes(model, "veo") THEN "video"
    ELSE IF Includes(model, "image") THEN "image"
    ELSE "text"

\* processGeneration (App.tsx 563-568): the kind of generation
ActualType(model, videoData) ==
    IF Includes(model, "veo") THEN "video"
    ELSE IF Includes(model, "image") /\ ~videoData THEN "image"
    ELSE "text"

\* the placeholder of each branch (App.tsx 574, 581, 587)
Placeholder(kind, botMsgId) ==
    IF kind = "video" THEN ModelMsg(botMsgId, DirectingText, "isDirecting", 0, "", FALSE)
    ELSE IF kind = "image" THEN ModelMsg(botMsgId, "", "isPainting", 0, "", FALSE)
    ELSE ModelMsg(botMsgId, "", "isLoading", 0, "", FALSE)

\* A text branch that iterates both of the generators it makes.
GatewayCallsBothStreams(kind) == IF kind = "text" THEN 2 ELSE 1

\* The generation requests processGeneration makes once it is past the key
\* check: one generateContentStream (of the two generators the text branch
\* makes, App.tsx 589 and 598, only the second is iterated, and the body of an
\* async generator runs when it is iterated), one generateContent (583) or one
\* generateVideos (576); none of them is in a loop.
GatewayCalls(kind) == 1

\* The closure of one handleSendMessage / handleEditMessage call with its
\* processGeneration: what it captured, where it waits, and the locals of the
\* text branch (fullContent, groundingSources) and of generateVideo.
\* No code reads the rest, which records what happened: yielded (what
\* streamChat yielded), polls and statusUpdates (the poll cycles of the video
\* job and the onStatusUpdate calls), outcome (how the call ended), pre and
\* index (the messages shown when the handler ran and the position acted on),
\* first (the send found the session empty), overlapped (another call was
\* running at some time during this one), calls (the generation requests made
\* to the Gateway so far).
Turn(op, sid, uid, kind, history, botMsgId, text, nimg, pc, pre, index) ==
    [op |-> op, sid |-> sid, uid |-> uid, kind |-> kind, history |-> history,
     botMsgId |-> botMsgId, text |-> text, images |-> nimg, pc |-> pc,
     fullContent |-> "", groundingSources |-> FALSE, finished |-> FALSE,
     yielded |-> <<>>, chunks |-> 0, polls |-> 0, statusUpdates |-> 0,
     outcome |-> "", pre |-> pre, index |-> index,
     first |-> (op = "send" /\ Len(pre) = 0),
     overlapped |-> \E j \in 1..Len(turns) : turns[j].pc # "done",
     calls |-> IF pc = "key" THEN 0 ELSE GatewayCalls(kind)]

\* the calls in flight when another one starts
StartTurn(ts, tn) ==
    Append([j \in 1..Len(ts) |->
               IF ts[j].pc # "done" THEN [ts[j] EXCEPT !.overlapped = TRUE] ELSE ts[j]],
           tn)

\* processGeneration up to its first await: with window.aistudio the image and
\* video branches await the key check before they show the placeholder
FirstPc(kind, aistudio) ==
    IF kind # "text" /\ aistudio THEN "key"
    ELSE IF kind = "text" THEN "stream" ELSE kind

ShowPlaceholder(ss, tn) ==
    SetMessages(ss, tn.sid, Append(tn.history, Placeholder(tn.kind, tn.botMsgId)))

\* handleSendMessage (App.tsx 616-640) as called by ChatInput.handleSend
\* (ChatInput.tsx 386-388) with the trimmed text, up to the first await of
\* processGeneration.  `eager` tells whether React ran the updater of
\* saveCurrentSession at once or at the next render, that is before or after
\* the store write of renameSession.
HandleSendMessage(text, nimg, video, model, t, aistudio, eager) ==
    LET sid == currentSessionId
        messages == MessagesOf(sessions, sid)
        updatedMessages == Append(messages, UserMsg(t, text, nimg, video))
        first == Len(messages) = 0
        label == IF first /\ text = ""
                 THEN (IF nimg > 0 THEN ImageTitle ELSE IF video THEN VideoTitle ELSE "")
                 ELSE ""
        ss1 == SaveSessions(sessions, user, sid, updatedMessages, "")
        ss2 == IF label # "" THEN Retitle(ss1, sid, label) ELSE ss1
        st2 == IF label = "" THEN SaveStore(store, sessions, user, sid, updatedMessages, "")
               ELSE IF eager
               THEN StoreTitle(SaveStore(store, sessions, user, sid, updatedMessages, ""),
                               user, sid, label)
               ELSE SaveStore(StoreTitle(store, user, sid, label),
                              sessions, user, sid, updatedMessages, "")
        kind == ActualType(model, video)
        tn == Turn("send", sid, user, kind, updatedMessages, t + 1, text, nimg,
                   FirstPc(kind, aistudio), messages, 0)
    IN /\ authChecked
       /\ ~isLoading /\ (text # "" \/ nimg > 0 \/ video)
       /\ ~Falsy(sid) /\ user # NoUser
       /\ (label = "" => eager)
       /\ (kind = "text" => ~aistudio)
       /\ now' = t
       /\ sessions' = IF tn.pc = "key" THEN ss2 ELSE ShowPlaceholder(ss2, tn)
       /\ store' = st2
       /\ feedPending' = (feedPending \/ Touch(user, st2))
       /\ titleCalls' = IF first /\ text # ""
                        THEN titleCalls \cup {[sid |-> sid, uid |-> user, text |-> text]}
                        ELSE titleCalls
       /\ isLoading' = TRUE
       /\ turns' = StartTurn(turns, tn)
       /\ UNCHANGED <<configured, denied, isLiveMode, lives, authChecked, authStore, user, subCur, fed,
                      currentSessionId, speechCalls>>

\* generateTitle(text).then(title => renameSession(currentSessionId, title))
\* (App.tsx 625-627), in the closure of the send that issued it
TitleResolve(c) ==
    /\ c \in titleCalls
    /\ titleCalls' = titleCalls \ {c}
    /\ sessions' = Retitle(sessions, c.sid, GenerateTitle(c.text))
    /\ store' = StoreTitle(store, c.uid, c.sid, GenerateTitle(c.text))
    /\ feedPending' = (feedPending \/ Touch(c.uid, store'))
    /\ UNCHANGED <<configured, denied, isLiveMode, lives, now, authChecked, authStore, user, subCur, fed,
                   currentSessionId, isLoading, turns, speechCalls>>

\* An edit that replaces the message in place and keeps what followed it.
NewHistoryKeepsSuffix(messages, msgIndex, updatedUserMsg) ==
    [messages EXCEPT ![msgIndex] = updatedUserMsg]

\* [...messages.slice(0, msgIndex), updatedUserMsg] (App.tsx 551)
NewHistory(messages, msgIndex, updatedUserMsg) ==
    Append(SubSeq(messages, 1, msgIndex - 1), updatedUserMsg)

\* handleEditMessage (App.tsx 542-560) for the message identifier it is given,
\* up to the first await of processGeneration; `index` is the position of the
\* message the request was made for, which the closure's record keeps.  Each
\* of its early returns (543, 545, 547) leaves everything as it is.
EditMessage(messageId, index, newContent, model, t, aistudio) ==
    LET sid == currentSessionId
        messages == MessagesOf(sessions, sid)
        msgIndex == FindIndex(messages, messageId)
        oldMsg == messages[msgIndex]
        updatedUserMsg == [oldMsg EXCEPT !.content = newContent]
        newHistory == NewHistory(messages, msgIndex, updatedUserMsg)
        videoData == updatedUserMsg.videoUri \notin {"", UndefinedProp, "Attached Video"}
        kind == ActualType(model, videoData)
        tn == Turn("edit", sid, user, kind, newHistory, t + 1, newContent,
                   updatedUserMsg.images, FirstPc(kind, aistudio), messages, index)
        ss1 == SetMessages(SaveSessions(sessions, user, sid, newHistory, ""), sid, newHistory)
    IN /\ authChecked
       /\ IF Falsy(sid) \/ user = NoUser \/ ~HasId(sessions, sid) \/ msgIndex = 0
          THEN UNCHANGED vars
          ELSE /\ (kind = "text" => ~aistudio)
               /\ now' = t
               /\ sessions' = IF tn.pc = "key" THEN ss1 ELSE ShowPlaceholder(ss1, tn)
               /\ store' = SaveStore(store, sessions, user, sid, newHistory, "")
               /\ feedPending' = (feedPending \/ Touch(user, store'))
               /\ isLoading' = TRUE
               /\ turns' = StartTurn(turns, tn)
               /\ UNCHANGED <<configured, denied, isLiveMode, lives, authChecked, authStore, user, subCur, fed,
                              currentSessionId, titleCalls, speechCalls>>

\* ChatMessage.handleEditSubmit (ChatInput.tsx 1038-1040) of the i-th message
\* shown, whose edit button is offered for a user message that is neither
\* loading nor painting (ChatInput.tsx 1104-1106): onEditSave(message.id, text)
\* with the trimmed text, when it is not blank and not the present content
HandleEditMessage(i, newContent, model, t, aistudio) ==
    LET messages == MessagesOf(sessions, currentSessionId)
        shown == messages[i]
    IN /\ i \in 1..Len(messages)
       /\ shown.role = "user" /\ ~shown.isLoading /\ ~shown.isPainting
       /\ newContent # "" /\ newContent # shown.content
       /\ EditMessage(shown.id, i, newContent, model, t, aistudio)

\* ---------------------------------------------------------------- turn steps
Running(i) == i \in 1..Len(turns) /\ turns[i].pc # "done"

TurnFrame == UNCHANGED <<configured, denied, isLiveMode, lives, now, authChecked, authStore, user, subCur, fed,
                         currentSessionId, titleCalls, speechCalls>>

\* a closure that has returned: its locals are gone, the record of what
\* happened stays
Ended(tn, outcome) ==
    [tn EXCEPT !.pc = "done", !.outcome = outcome, !.history = <<>>, !.text = "",
               !.images = 0, !.fullContent = "", !.groundingSources = FALSE,
               !.finished = FALSE, !.chunks = 0, !.polls = 0, !.statusUpdates = 0,
               !.pre = <<>>, !.index = 0]

\* The end of processGeneration and of its caller: saveCurrentSession with the
\* captured history and the final model message (App.tsx 577, 585, 608, 612),
\* then setIsLoading(false) in the caller's finally (App.tsx 559, 639)
Settle(i, final, outcome, tn) ==
    /\ sessions' = SaveSessions(sessions, tn.uid, tn.sid, Append(tn.history, final), "")
    /\ store' = SaveStore(store, sessions, tn.uid, tn.sid, Append(tn.history, final), "")
    /\ feedPending' = (feedPending \/ Touch(tn.uid, store'))
    /\ isLoading' = FALSE
    /\ turns' = [turns EXCEPT ![i] = Ended(tn, outcome)]
    /\ TurnFrame

\* the catch of processGeneration (App.tsx 610-613)
Fail(i, message, tn) ==
    Settle(i, ModelMsg(tn.botMsgId, CatchPrefix \o message, "", 0, "", FALSE), "error", tn)

\* await aistudio.hasSelectedApiKey() / openSelectKey() (App.tsx 572-573,
\* 579-580) returns, and the placeholder is shown; or it throws
KeyChecked(i, ok) ==
    /\ Running(i) /\ turns[i].pc = "key"
    /\ IF ok
       THEN /\ sessions' = ShowPlaceholder(sessions, turns[i])
            /\ turns' = [turns EXCEPT ![i].pc = turns[i].kind,
                                      ![i].calls = GatewayCalls(turns[i].kind)]
            /\ UNCHANGED <<store, feedPending, isLoading>>
            /\ TurnFrame
       ELSE Fail(i, "key selection failed", turns[i])

\* setSessions of the text loop (App.tsx 605): the message of id botMsgId in
\* the turn's session gets the content so far and isLoading false
ShowContent(ss, sid, botMsgId, content) ==
    [k \in 1..Len(ss) |->
        IF ss[k].id = sid
        THEN [ss[k] EXCEPT !.messages =
                [j \in 1..Len(ss[k].messages) |->
                    IF ss[k].messages[j].id = botMsgId
                    THEN [ss[k].messages[j] EXCEPT !.content = content, !.isLoading = FALSE]
                    ELSE ss[k].messages[j]]]
        ELSE ss[k]]

\* what streamChat yields for one chunk, in order (part_002 271-282)
ChunkYields(c) ==
    (IF c.text # "" THEN <<c.text>> ELSE <<>>)
    \o (IF c.grounding THEN <<"groundingChunks">> ELSE <<>>)
    \o (IF c.safety THEN <<SafetyNotice>> ELSE <<>>)

RECURSIVE Concat(_)
\* the strings of a sequence of yields joined in order (fullContent += chunk);
\* a grounding batch is not a string
Concat(ys) ==
    IF ys = <<>> THEN ""
    ELSE (IF Head(ys) = "groundingChunks" THEN "" ELSE Head(ys)) \o Concat(Tail(ys))

HasText(ys) == \E k \in 1..Len(ys) : ys[k] # "groundingChunks"

\* A text loop that keeps the last fragment only (fullContent = chunk).
ConsumeLast(tn, ys) ==
    [tn EXCEPT !.fullContent = IF HasText(ys) THEN Concat(ys) ELSE tn.fullContent,
               !.groundingSources = tn.groundingSources \/ (\E k \in 1..Len(ys) : ys[k] = "groundingChunks"),
               !.yielded = tn.yielded \o ys]

\* the text loop over one chunk's yields (App.tsx 602-607)
Consume(tn, ys) ==
    [tn EXCEPT !.fullContent = tn.fullContent \o Concat(ys),
               !.groundingSources = tn.groundingSources \/ (\E k \in 1..Len(ys) : ys[k] = "groundingChunks"),
               !.yielded = tn.yielded \o ys]

\* the Gateway delivers a chunk of the stream
StreamChunk(i, c) ==
    /\ Running(i) /\ turns[i].pc = "stream"
    /\ ~turns[i].finished /\ turns[i].chunks < MaxChunks
    /\ LET tn == Consume(turns[i], ChunkYields(c))
       IN /\ turns' = [turns EXCEPT ![i] = [tn EXCEPT !.chunks = tn.chunks + 1,
                                                       !.finished = c.safety]]
          /\ sessions' = IF HasText(ChunkYields(c))
                         THEN ShowContent(sessions, tn.sid, tn.botMsgId, tn.fullContent)
                         ELSE sessions
    /\ UNCHANGED <<store, feedPending, isLoading>>
    /\ TurnFrame

\* the stream ends: the final save of the text branch (App.tsx 608)
StreamDone(i) ==
    /\ Running(i) /\ turns[i].pc = "stream"
    /\ Settle(i, ModelMsg(turns[i].botMsgId, turns[i].fullContent, "", 0, "",
                          turns[i].groundingSources), "ok", turns[i])

\* the catch of streamChat (part_002 283-297)
IsNotFound(e) == e.message = NotFoundText \/ e.status = 404

\* A catch that reports every status but 404 as a rate limit.
StreamCatchAllRateLimited(e) ==
    IF IsNotFound(e) THEN "throw" ELSE RateLimitText

StreamCatch(e) ==
    IF IsNotFound(e) THEN "throw"
    ELSE IF e.status = 429 THEN RateLimitText
    ELSE StreamErrorPrefix \o e.message \o "..."   \* slice(0, 100) keeps a short message whole

\* generateContentStream or the iteration of its result raises e: streamChat
\* rethrows or yields one last string, and the loop or the catch of
\* processGeneration ends the turn
StreamError(i, e) ==
    /\ Running(i) /\ turns[i].pc = "stream" /\ ~turns[i].finished
    /\ IF StreamCatch(e) = "throw"
       THEN Fail(i, e.message, turns[i])
       ELSE LET tn == Consume(turns[i], <<StreamCatch(e)>>)
            IN Settle(i, ModelMsg(tn.botMsgId, tn.fullContent, "", 0, "",
                                  tn.groundingSources),
                      IF e.status = 429 THEN "rateLimited" ELSE "caught", tn)

\* generateImage returns images (part_002 109-122), none being an error
ImageAnswer(i, n) ==
    /\ Running(i) /\ turns[i].pc = "image"
    /\ IF n = 0 THEN Fail(i, NoImageText, turns[i])
       ELSE Settle(i, ModelMsg(turns[i].botMsgId,
                               IF turns[i].images > 0 THEN "Edited image"
                               ELSE "Generated: \"" \o turns[i].text \o "\"",
                               "", n, "", FALSE), "ok", turns[i])

\* generateImage or generateVideo rethrows what the Gateway raised
CallError(i, e) ==
    /\ Running(i) /\ turns[i].pc \in {"image", "video"}
    /\ Fail(i, e.message, turns[i])

\* the onStatusUpdate argument of generateVideo: App passes none (App.tsx 576)
OnStatusUpdate == FALSE

\* generateVideos or getVideosOperation answers (part_002 164-175): a job that
\* is not done starts a poll cycle, a done one ends the call
VideoAnswer(i, done, hasUri) ==
    /\ Running(i) /\ turns[i].pc = "video"
    /\ IF ~done
       THEN /\ turns[i].polls < MaxPolls
            /\ turns' = [turns EXCEPT ![i].polls = @ + 1,
                                      ![i].statusUpdates = IF OnStatusUpdate THEN @ + 1 ELSE @]
            /\ UNCHANGED <<sessions, store, feedPending, isLoading>>
            /\ TurnFrame
       ELSE IF hasUri
            THEN Settle(i, ModelMsg(turns[i].botMsgId, RenderedText, "", 0, "video-uri", FALSE),
                        "ok", turns[i])
            ELSE Fail(i, NoVideoText, turns[i])

\* ---------------------------------------------------------------- request
\* One entry of `contents`: the role and the parts of a message (part_002
\* 194-204, 230); the parts are the images and the text
Content(role, text, nimg) ==
    [role |-> IF role = "user" THEN "user" ELSE "model", text |-> text, images |-> nimg]

RECURSIVE ChatHistory(_)
\* history.filter(msg => !msg.isLoading && msg.role !== Role.SYSTEM).map(...)
ChatHistory(history) ==
    IF history = <<>> THEN <<>>
    ELSE LET m == Head(history)
         IN (IF ~m.isLoading /\ m.role # "system"
             THEN <<Content(m.role, m.content, m.images)>> ELSE <<>>)
            \o ChatHistory(Tail(history))

\* config.model.includes('tts') || config.model.includes('image')
IsSingleTurnOnly(model) == Includes(model, "tts") \/ Includes(model, "image")

\* the contents streamChat sends with generateContentStream (part_002 253-262)
StreamChatContents(history, newMessage, nimg, model) ==
    IF IsSingleTurnOnly(model) THEN <<Content("user", newMessage, nimg)>>
    ELSE ChatHistory(history) \o <<Content("user", newMessage, nimg)>>

\* the request of the text branch of processGeneration for the history it is
\* given (App.tsx 594-598): streamChat(prevHistory, userMsg.content,
\* userMsg.images || [], cfg, videoData)
TextRequest(history, model) ==
    StreamChatContents(SubSeq(history, 1, Len(history) - 1),
                       Last(history).content, Last(history).images, model)

\* ---------------------------------------------------------------- speech
\* session.messages.map(m => m.id === updatedMessage.id ? updatedMessage : m)
UpdateMessages(msgs, updatedMessage) ==
    [j \in 1..Len(msgs) |-> IF msgs[j].id = updatedMessage.id THEN updatedMessage ELSE msgs[j]]

RECURSIVE SaveUpdated(_, _, _, _, _)
\* the saveSession calls of the updater of handleUpdateMessage, one for each
\* session of the list whose id is sid, in order
SaveUpdated(st, ss, uid, sid, updatedMessage) ==
    IF ss = <<>> THEN st
    ELSE SaveUpdated(
            IF Head(ss).id = sid
            THEN StoreSave(st, uid, [Head(ss) EXCEPT
                                        !.messages = UpdateMessages(@, updatedMessage)])
            ELSE st,
            Tail(ss), uid, sid, updatedMessage)

\* handleUpdateMessage (App.tsx 540) of a render that had identity uid and
\* currentSessionId sid
HandleUpdateMessage(uid, sid, updatedMessage) ==
    IF Falsy(sid) \/ uid = NoUser
    THEN UNCHANGED <<sessions, store, feedPending>>
    ELSE /\ sessions' = [k \in 1..Len(sessions) |->
                            IF sessions[k].id = sid
                            THEN [sessions[k] EXCEPT
                                     !.messages = UpdateMessages(@, updatedMessage)]
                            ELSE sessions[k]]
         /\ store' = SaveUpdated(store, sessions, uid, sid, updatedMessage)
         /\ feedPending' = (feedPending \/ Touch(uid, store'))

\* the audio generateSpeech returns (part_002 40-65)
Pcm == "pcm"

\* ChatMessage.handleSpeak (ChatInput.tsx 1014-1021) of the i-th message shown,
\* up to its await: the speaker button is offered for a message that is not the
\* user's, has content and is neither loading nor painting (1104-1108), and a
\* message that has its audio plays it without a request
HandleSpeak(i) ==
    LET messages == MessagesOf(sessions, currentSessionId)
        message == messages[i]
    IN /\ authChecked
       /\ i \in 1..Len(messages)
       /\ message.role # "user" /\ message.content # ""
       /\ ~message.isLoading /\ ~message.isPainting
       /\ message.audioBase64 = ""
       /\ speechCalls' = speechCalls \cup
                            {[message |-> message, sid |-> currentSessionId, uid |-> user]}
       /\ UNCHANGED <<configured, denied, isLiveMode, lives, now, authChecked, authStore, user, subCur, fed,
                      feedPending, sessions, currentSessionId, isLoading, store, turns,
                      titleCalls>>

\* generateSpeech settles: onUpdateMessage({ ...message, audioBase64 }) with the
\* message and the handler of the render handleSpeak ran in, or the catch of
\* handleSpeak (ChatInput.tsx 1035)
SpeechResolve(c, ok) ==
    /\ c \in speechCalls
    /\ speechCalls' = speechCalls \ {c}
    /\ IF ok
       THEN HandleUpdateMessage(c.uid, c.sid, [c.message EXCEPT !.audioBase64 = Pcm])
       ELSE UNCHANGED <<sessions, store, feedPending>>
    /\ UNCHANGED <<configured, denied, isLiveMode, lives, now, authChecked, authStore, user, subCur, fed,
                   currentSessionId, isLoading, turns, titleCalls>>

\* ---------------------------------------------------------------- live overlay
\* The effect of one LiveSessionOverlay (App.tsx 352-439): whether the overlay
\* is mounted, where startLive is (awaiting getUserMedia, past the set-up, or
\* in its catch), the tracks of the microphone stream, whether the source and
\* the script processor are connected, the two audio contexts, and whether
\* the variable `cleanup` of the effect has been assigned.
Live(pc) ==
    [mounted |-> TRUE, pc |-> pc, tracks |-> "none", connected |-> FALSE,
     contexts |-> "none", cleanup |-> FALSE]

\* the function assigned to `cleanup` (App.tsx 427-433)
Cleanup(l) == [l EXCEPT !.tracks = "stopped", !.connected = FALSE, !.contexts = "closed"]

\* the function the effect returns: () => cleanup && cleanup() (App.tsx 438)
EffectReturn(l) == IF l.cleanup THEN Cleanup(l) ELSE l

\* onLiveStart (App.tsx 732), which the composer offers once App renders
\* (641): setIsLiveMode(true) mounts the overlay, whose effect calls
\* startLive, which runs up to await getUserMedia (357)
OnLiveStart ==
    /\ authChecked
    /\ ~isLiveMode /\ Len(lives) < MaxLive
    /\ isLiveMode' = TRUE
    /\ lives' = Append(lives, Live("media"))
    /\ UNCHANGED <<configured, denied, now, authChecked, authStore, user, subCur, fed,
                   feedPending, sessions, currentSessionId, isLoading, store, turns,
                   titleCalls, speechCalls>>

\* getUserMedia resolves: the contexts are made, the source and the script
\* processor connected, and `cleanup` is assigned (App.tsx 358-433), whether
\* or not the overlay is still mounted; or it rejects and the catch sets the
\* status (435)
MediaAnswer(k, granted) ==
    /\ k \in 1..Len(lives) /\ lives[k].pc = "media"
    /\ lives' = [lives EXCEPT ![k] =
                    IF granted
                    THEN [lives[k] EXCEPT !.pc = "running", !.tracks = "live",
                                          !.connected = TRUE, !.contexts = "open",
                                          !.cleanup = TRUE]
                    ELSE [lives[k] EXCEPT !.pc = "failed"]]
    /\ UNCHANGED <<configured, denied, isLiveMode, now, authChecked, authStore, user, subCur,
                   fed, feedPending, sessions, currentSessionId, isLoading, store, turns,
                   titleCalls, speechCalls>>

\* onClose (App.tsx 653): setIsLiveMode(false) unmounts the overlay and React
\* calls what its effect returned
OnClose ==
    /\ isLiveMode
    /\ isLiveMode' = FALSE
    /\ lives' = [k \in 1..Len(lives) |->
                    IF lives[k].mounted
                    THEN [EffectReturn(lives[k]) EXCEPT !.mounted = FALSE]
                    ELSE lives[k]]
    /\ UNCHANGED <<configured, denied, now, authChecked, authStore, user, subCur, fed,
                   feedPending, sessions, currentSessionId, isLoading, store, turns,
                   titleCalls, speechCalls>>

\* ---------------------------------------------------------------- specification
\* what an earlier visit has left in the store for Alice: a session with a
\* settled text turn
OldSession ==
    Stringify([id |-> 4, title |-> "Old",
               messages |-> <<UserMsg(5, "hi", 0, FALSE), ModelMsg(6, "a", "", 0, "", FALSE)>>,
               createdAt |-> 4])

\* the clock reading of the last handler of the earlier visit
Epoch == Last(OldSession.messages).id

\* the readings Date.now() can give the next handler, while fewer than
\* `events` handlers have read the clock
Ticks(events) ==
    {t \in {now + g : g \in EventGaps} :
        \A g \in EventGaps : t <= Epoch + events * g}

Init ==
    /\ configured \in BOOLEAN
    /\ denied = FALSE
    /\ now = Epoch
    /\ authChecked = FALSE
    /\ authStore \in {NoUser, Alice}
    /\ user = NoUser
    /\ subCur = Null
    /\ fed = FALSE
    /\ feedPending = FALSE
    /\ sessions = <<>>
    /\ currentSessionId = Null
    /\ isLoading = FALSE
    /\ store = StoreSave(<<>>, Alice, OldSession)
    /\ turns = <<>>
    /\ titleCalls = {}
    /\ speechCalls = {}
    /\ isLiveMode = FALSE
    /\ lives = <<>>

\* what the composer sends: a text, image-only and video-only turns, and the
\* image and video models
SendInputs ==
    { [text |-> "hi", images |-> 0, video |-> FALSE, model |-> FlashModel],
      [text |-> "", images |-> 1, video |-> FALSE, model |-> FlashModel],
      [text |-> "", images |-> 0, video |-> TRUE, model |-> ImageModel],
      [text |-> "hi", images |-> 0, video |-> FALSE, model |-> ImageModel],
      [text |-> "hi", images |-> 0, video |-> FALSE, model |-> VeoModel] }

UserTexts == {"hi", "yo"}

SessionIds == {sessions[k].id : k \in 1..Len(sessions)}

Next ==
    \/ \E t \in Ticks(MaxEvents) \cup {Null} : Mount(t)
    \/ \E t \in Ticks(MaxEvents) \cup {Null} : FeedNotify(t)
    \/ \E t \in Ticks(MaxEvents) \cup {Null} : HandleLogin(Alice, t)
    \/ \E t \in Ticks(MaxEvents) : HandleLogout(t)
    \/ \E t \in Ticks(MaxEvents) : CreateNewChat(t)
    \/ \E id \in SessionIds : DeleteSession(id)
    \/ \E id \in SessionIds : SelectSession(id)
    \/ \E id \in SessionIds, title \in RenameTitles : RenameSession(id, title)
    \/ \E in \in SendInputs, aistudio, eager \in BOOLEAN, t \in Ticks(MaxEvents) :
          HandleSendMessage(in.text, in.images, in.video, in.model, t, aistudio, eager)
    \/ \E c \in titleCalls : TitleResolve(c)
    \/ \E i \in 1..Len(MessagesOf(sessions, currentSessionId)), text \in UserTexts,
          aistudio \in BOOLEAN, model \in Models, t \in Ticks(MaxEvents) :
          HandleEditMessage(i, text, model, t, aistudio)
    \/ \E i \in 1..Len(turns), ok \in BOOLEAN : KeyChecked(i, ok)
    \/ \E i \in 1..Len(turns), c \in Chunks : StreamChunk(i, c)
    \/ \E i \in 1..Len(turns) : StreamDone(i)
    \/ \E i \in 1..Len(turns), e \in Errors : StreamError(i, e)
    \/ \E i \in 1..Len(turns), n \in 0..1 : ImageAnswer(i, n)
    \/ \E i \in 1..Len(turns), e \in Errors : CallError(i, e)
    \/ \E i \in 1..Len(turns), done, hasUri \in BOOLEAN : VideoAnswer(i, done, hasUri)

Spec == Init /\ [][Next]_vars

\* ---------------------------------------------------------------- overlapping calls
\* A second specification, for calls that overlap: one more clock reading, and
\* of the handlers only those of a signed-in account that selects sessions,
\* sends texts and edits messages against the local store, with streams that
\* end without an error.
OtherSession ==
    Stringify([id |-> 1, title |-> "Other",
               messages |-> <<UserMsg(2, "hi", 0, FALSE), ModelMsg(3, "a", "", 0, "", FALSE)>>,
               createdAt |-> 1])

InitOverlap ==
    /\ configured = FALSE
    /\ denied = FALSE
    /\ now = Epoch
    /\ authChecked = FALSE
    /\ authStore = Alice
    /\ user = NoUser
    /\ subCur = Null
    /\ fed = FALSE
    /\ feedPending = FALSE
    /\ sessions = <<>>
    /\ currentSessionId = Null
    /\ isLoading = FALSE
    /\ store = StoreSave(StoreSave(<<>>, Alice, OtherSession), Alice, OldSession)
    /\ turns = <<>>
    /\ titleCalls = {}
    /\ speechCalls = {}
    /\ isLiveMode = FALSE
    /\ lives = <<>>

NextOverlap ==
    \/ Mount(Null)
    \/ \E id \in SessionIds : SelectSession(id)
    \/ \E t \in Ticks(MaxEvents + 1) :
          HandleSendMessage("hi", 0, FALSE, FlashModel, t, FALSE, TRUE)
    \/ \E i \in 1..Len(MessagesOf(sessions, currentSessionId)), t \in Ticks(MaxEvents + 1) :
          HandleEditMessage(i, "yo", FlashModel, t, FALSE)
    \/ \E i \in 1..Len(turns), c \in {d \in Chunks : ~d.grounding /\ ~d.safety} :
          StreamChunk(i, c)
    \/ \E i \in 1..Len(turns) : StreamDone(i)

SpecOverlap == InitOverlap /\ [][NextOverlap]_vars

\* ---------------------------------------------------------------- edit requests
\* A third specification, for handleEditMessage as an operation on a message
\* identifier: it is called for any identifier of a message of a listed
\* session, of the active session or not, against the local store.
MessageIds ==
    UNION {{sessions[k].messages[j].id : j \in 1..Len(sessions[k].messages)} :
              k \in 1..Len(sessions)}

EditRequest(messageId, t) ==
    EditMessage(messageId, FindIndex(MessagesOf(sessions, currentSessionId), messageId),
                "yo", FlashModel, t, FALSE)

NextEdit ==
    \/ Mount(Null)
    \/ \E id \in SessionIds : SelectSession(id)
    \/ \E id \in MessageIds, t \in Ticks(MaxEvents) : EditRequest(id, t)
    \/ \E i \in 1..Len(turns), c \in {d \in Chunks : ~d.grounding /\ ~d.safety} :
          StreamChunk(i, c)
    \/ \E i \in 1..Len(turns) : StreamDone(i)

SpecEdit == InitOverlap /\ [][NextEdit]_vars

\* ---------------------------------------------------------------- local store
\* A fourth specification, for the local-storage store: Firebase is not
\* configured, and the handlers are those of Spec for text turns and an
\* image-only first message, with those of the speech cache.
InitLocal ==
    /\ configured = FALSE
    /\ denied = FALSE
    /\ now = Epoch
    /\ authChecked = FALSE
    /\ authStore \in {NoUser, Alice}
    /\ user = NoUser
    /\ subCur = Null
    /\ fed = FALSE
    /\ feedPending = FALSE
    /\ sessions = <<>>
    /\ currentSessionId = Null
    /\ isLoading = FALSE
    /\ store = StoreSave(<<>>, Alice, OldSession)
    /\ turns = <<>>
    /\ titleCalls = {}
    /\ speechCalls = {}
    /\ isLiveMode = FALSE
    /\ lives = <<>>

LocalInputs == {in \in SendInputs : in.model = FlashModel /\ ~in.video}

NextLocal ==
    \/ \E t \in Ticks(MaxEvents) \cup {Null} : Mount(t)
    \/ \E t \in Ticks(MaxEvents) \cup {Null} : HandleLogin(Alice, t)
    \/ \E t \in Ticks(MaxEvents) : HandleLogout(t)
    \/ \E t \in Ticks(MaxEvents) : CreateNewChat(t)
    \/ \E id \in SessionIds : DeleteSession(id)
    \/ \E id \in SessionIds : SelectSession(id)
    \/ \E id \in SessionIds, title \in RenameTitles : RenameSession(id, title)
    \/ \E in \in LocalInputs, eager \in BOOLEAN, t \in Ticks(MaxEvents) :
          HandleSendMessage(in.text, in.images, in.video, in.model, t, FALSE, eager)
    \/ \E c \in titleCalls : TitleResolve(c)
    \/ \E i \in 1..Len(MessagesOf(sessions, currentSessionId)), t \in Ticks(MaxEvents) :
          HandleEditMessage(i, "yo", FlashModel, t, FALSE)
    \/ \E i \in 1..Len(turns), c \in {d \in Chunks : ~d.grounding /\ ~d.safety} :
          StreamChunk(i, c)
    \/ \E i \in 1..Len(turns) : StreamDone(i)
    \/ \E i \in 1..Len(MessagesOf(sessions, currentSessionId)) : HandleSpeak(i)
    \/ \E c \in speechCalls, ok \in BOOLEAN : SpeechResolve(c, ok)

SpecLocal == InitLocal /\ [][NextLocal]_vars

\* ---------------------------------------------------------------- refused writes
\* A fifth specification, for a backend that fails: Firebase is configured and
\* Firestore, which serves the stored list of Alice, refuses every write.
OldStore == [u \in {Alice} |-> <<[key |-> OldSession.id, data |-> OldSession]>>]

InitFail ==
    /\ configured = TRUE
    /\ denied = TRUE
    /\ now = Epoch
    /\ authChecked = FALSE
    /\ authStore = Alice
    /\ user = NoUser
    /\ subCur = Null
    /\ fed = FALSE
    /\ feedPending = FALSE
    /\ sessions = <<>>
    /\ currentSessionId = Null
    /\ isLoading = FALSE
    /\ store = OldStore
    /\ turns = <<>>
    /\ titleCalls = {}
    /\ speechCalls = {}
    /\ isLiveMode = FALSE
    /\ lives = <<>>

NextFail ==
    \/ Mount(Null)
    \/ FeedNotify(Null)
    \/ \E t \in Ticks(MaxEvents) : CreateNewChat(t)
    \/ \E id \in SessionIds : DeleteSession(id)
    \/ \E id \in SessionIds : SelectSession(id)
    \/ \E id \in SessionIds, title \in RenameTitles : RenameSession(id, title)
    \/ \E in \in LocalInputs, eager \in BOOLEAN, t \in Ticks(MaxEvents) :
          HandleSendMessage(in.text, in.images, in.video, in.model, t, FALSE, eager)
    \/ \E c \in titleCalls : TitleResolve(c)
    \/ \E i \in 1..Len(MessagesOf(sessions, currentSessionId)), t \in Ticks(MaxEvents) :
          HandleEditMessage(i, "yo", FlashModel, t, FALSE)
    \/ \E i \in 1..Len(turns), c \in {d \in Chunks : ~d.grounding /\ ~d.safety} :
          StreamChunk(i, c)
    \/ \E i \in 1..Len(turns) : StreamDone(i)

SpecFail == InitFail /\ [][NextFail]_vars

\* ---------------------------------------------------------------- stream errors
\* A sixth specification, for what the Gateway can raise during a text
\* generation: the statuses the two versions of the catch of streamChat test
\* (part_002 289-292, 474-486), and the not-found message under another status.
StreamErrors ==
    Errors \cup { [status |-> 400, message |-> "invalid argument"],
                  [status |-> 403, message |-> "permission denied"],
                  [status |-> 500, message |-> NotFoundText] }

NextStream ==
    \/ Mount(Null)
    \/ \E t \in Ticks(MaxEvents) :
          HandleSendMessage("hi", 0, FALSE, FlashModel, t, FALSE, TRUE)
    \/ \E id \in SessionIds : DeleteSession(id)
    \/ \E i \in 1..Len(turns), c \in Chunks : StreamChunk(i, c)
    \/ \E i \in 1..Len(turns) : StreamDone(i)
    \/ \E i \in 1..Len(turns), e \in StreamErrors : StreamError(i, e)

SpecStream == InitOverlap /\ [][NextStream]_vars

\* ---------------------------------------------------------------- generation kinds
\* A seventh specification, for the kind of generation: the composer calls
\* onSendMessage(text, images, type, video) (ChatInput.tsx 386-388) with each
\* type, model and attachment, and messages are edited under each model.
Types == {"text", "image", "video"}

\* handleSendMessage(text, images, type, videoData): no statement of it reads
\* `type` (App.tsx 616-640)
OnSendMessage(text, nimg, type, video, model, t, aistudio, eager) ==
    HandleSendMessage(text, nimg, video, model, t, aistudio, eager)

KindInputs ==
    SendInputs \cup { [text |-> "", images |-> 0, video |-> TRUE, model |-> FlashModel],
                      [text |-> "", images |-> 0, video |-> TRUE, model |-> VeoModel] }

NextKind ==
    \/ Mount(Null)
    \/ \E in \in KindInputs, type \in Types, aistudio, eager \in BOOLEAN, t \in Ticks(MaxEvents) :
          OnSendMessage(in.text, in.images, type, in.video, in.model, t, aistudio, eager)
    \/ \E i \in 1..Len(MessagesOf(sessions, currentSessionId)), model \in Models,
          aistudio \in BOOLEAN, t \in Ticks(MaxEvents) :
          HandleEditMessage(i, "yo", model, t, aistudio)
    \/ \E i \in 1..Len(turns) : KeyChecked(i, TRUE)
    \/ \E i \in 1..Len(turns) : StreamDone(i)
    \/ \E i \in 1..Len(turns) : ImageAnswer(i, 1)
    \/ \E i \in 1..Len(turns) : VideoAnswer(i, TRUE, TRUE)

SpecKind == InitOverlap /\ [][NextKind]_vars

\* ---------------------------------------------------------------- edited context
\* An eighth specification, for the context of a regeneration: two more clock
\* readings, two stored sessions, texts sent and messages edited under the
\* flash and the image model, and generations that end without an error.
NextContext ==
    \/ Mount(Null)
    \/ \E id \in SessionIds : SelectSession(id)
    \/ \E t \in Ticks(MaxEvents + 2) :
          HandleSendMessage("hi", 0, FALSE, FlashModel, t, FALSE, TRUE)
    \/ \E i \in 1..Len(MessagesOf(sessions, currentSessionId)),
          model \in {FlashModel, ImageModel}, t \in Ticks(MaxEvents + 2) :
          HandleEditMessage(i, "yo", model, t, FALSE)
    \/ \E i \in 1..Len(turns) : StreamDone(i)
    \/ \E i \in 1..Len(turns) : ImageAnswer(i, 1)

SpecContext == InitOverlap /\ [][NextContext]_vars

\* ---------------------------------------------------------------- live sessions
\* A ninth specification, for the live overlay: it is opened and closed while
\* a signed-in account sends texts, and the microphone is granted or denied
\* at any time after the overlay was opened.
NextLive ==
    \/ Mount(Null)
    \/ \E t \in Ticks(MaxEvents) :
          HandleSendMessage("hi", 0, FALSE, FlashModel, t, FALSE, TRUE)
    \/ \E i \in 1..Len(turns) : StreamDone(i)
    \/ OnLiveStart
    \/ \E k \in 1..Len(lives), granted \in BOOLEAN : MediaAnswer(k, granted)
    \/ OnClose

SpecLive == InitOverlap /\ [][NextLive]_vars

\* ---------------------------------------------------------------- close clock readings
\* A tenth specification, for handlers that read the clock within a
\* millisecond of each other: the first handler of the visit reads a later
\* clock than any of the earlier visit, each later one the same millisecond as
\* the handler before it or the next.  With a clock that may stand still the
\* number of handlers is bounded by the sessions listed and the calls started.
ClockGaps == {0, 1}

ClockTicks ==
    IF now = Epoch THEN {Epoch + 2}
    ELSE {t \in {now + g : g \in ClockGaps} : t <= Epoch + 2 + MaxEvents}

NextClock ==
    \/ Mount(Null)
    \/ \E t \in ClockTicks : Len(sessions) < MaxListed /\ CreateNewChat(t)
    \/ \E id \in SessionIds : SelectSession(id)
    \/ \E t \in ClockTicks :
          Len(turns) < MaxCalls /\ HandleSendMessage("hi", 0, FALSE, FlashModel, t, FALSE, TRUE)
    \/ \E i \in 1..Len(MessagesOf(sessions, currentSessionId)), t \in ClockTicks :
          Len(turns) < MaxCalls /\ HandleEditMessage(i, "yo", FlashModel, t, FALSE)
    \/ \E i \in 1..Len(turns) : StreamDone(i)

SpecClock == InitOverlap /\ [][NextClock]_vars

\* ---------------------------------------------------------------- properties
\* call i returns in this step
TurnEnds(i) == i \in 1..Len(turns) /\ turns[i].pc # "done" /\ turns'[i].pc = "done"

\* the backend holds a session under that key for the identity
IsStored(st, uid, sid) == KeyIndex(Load(st, uid), sid) > 0

StoredMessages(st, uid, sid) ==
    IF IsStored(st, uid, sid)
    THEN Load(st, uid)[KeyIndex(Load(st, uid), sid)].data.messages ELSE <<>>

\* the messages of that id in a sequence of messages
WithId(msgs, id) == {msgs[k] : k \in {j \in 1..Len(msgs) : msgs[j].id = id}}

Flags(m) == {f \in {"isLoading", "isPainting", "isDirecting"} : m[f]}

\* the identity is known and its feed has been processed, none being due
FeedProcessed == authChecked /\ user # NoUser /\ fed /\ ~feedPending

\* C1: when the regeneration of an edit settles, no other call having run
\* during it, the session listed under its id holds the messages that preceded
\* the edited one, unchanged and in order, then the edited message with only
\* its content replaced, then exactly one model message, which is new; nothing
\* that followed the edited message remains.
C1_EditRegenerates ==
    [][\A i \in 1..Len(turns) :
          (/\ TurnEnds(i)
           /\ turns[i].op = "edit"
           /\ ~turns[i].overlapped
           /\ Saves(sessions, turns[i].uid, turns[i].sid))
          => LET tn == turns[i]
                 after == MessagesOf(sessions', tn.sid)
             IN /\ Len(after) = tn.index + 1
                /\ SubSeq(after, 1, tn.index - 1) = SubSeq(tn.pre, 1, tn.index - 1)
                /\ after[tn.index] = [tn.pre[tn.index] EXCEPT !.content = tn.text]
                /\ Last(after).role = "model"
                /\ Last(after).id = tn.botMsgId
                /\ WithId(tn.pre, tn.botMsgId) = {}]_vars

\* An edit of the first message of a session of two messages has settled: the
\* session holds the edited message and the new model message, and the model
\* message that followed the edited one is gone.
C1_Witness ==
    \E i \in 1..Len(turns) :
        /\ turns[i].pc = "done" /\ turns[i].op = "edit" /\ turns[i].outcome = "ok"
        /\ ~turns[i].overlapped
        /\ HasId(sessions, turns[i].sid)
        /\ LET after == MessagesOf(sessions, turns[i].sid)
           IN /\ Len(after) = 2
              /\ after[1] = [OldSession.messages[1] EXCEPT !.content = "yo"]
              /\ after[2].id = turns[i].botMsgId
              /\ WithId(after, OldSession.messages[2].id) = {}

\* C2: deleteSession of the active session makes the most recently created of
\* the remaining sessions active; when none remains (and no snapshot is due
\* that would make one) the list holds exactly one fresh, empty session, which
\* is active.
C2_DeleteActive ==
    [][\A id \in SessionIds :
          (DeleteSession(id) /\ id = currentSessionId)
          => LET remaining == FilterSeq(sessions, id)
             IN IF Len(remaining) > 0
                THEN \E k \in 1..Len(remaining) :
                        /\ remaining[k].id = currentSessionId'
                        /\ \A j \in 1..Len(remaining) :
                              remaining[j].createdAt <= remaining[k].createdAt
                ELSE \/ feedPending'
                     \/ /\ Len(sessions') = 1
                        /\ sessions'[1].messages = <<>>
                        /\ currentSessionId' = sessions'[1].id]_vars

\* C3: once the send of the first message of a session has returned and the
\* title request it made, if any, is answered, the session, while listed for
\* the identity that sent, has a title that is neither empty nor a default one.
C3_FirstMessageTitles ==
    \A i \in 1..Len(turns) :
        (/\ turns[i].pc = "done" /\ turns[i].first
         /\ \A c \in titleCalls : c.sid # turns[i].sid
         /\ user = turns[i].uid
         /\ ~feedPending
         /\ HasId(sessions, turns[i].sid))
        => sessions[FindIndex(sessions, turns[i].sid)].title
              \notin {"", DefaultTitle, CosmicTitle}

\* the final message of call i as listed and as stored after this step
FinalMessages(i) ==
    WithId(MessagesOf(sessions', turns[i].sid), turns[i].botMsgId)
    \cup WithId(StoredMessages(store', turns[i].uid, turns[i].sid), turns[i].botMsgId)

\* the local store has taken the final message of call i in this step
PersistedLocally(i) ==
    IsMock(turns[i].uid)
    => WithId(StoredMessages(store', turns[i].uid, turns[i].sid), turns[i].botMsgId) # {}

\* C4 as stated: when a text generation returns and its final message is
\* saved, the content persisted for it is the concatenation, in order, of the
\* text fragments streamChat yielded, and a safety notice, if yielded, is the
\* last of them.
C4_ContentIsConcatenation ==
    [][\A i \in 1..Len(turns) :
          (/\ TurnEnds(i)
           /\ turns[i].kind = "text"
           /\ Saves(sessions, turns[i].uid, turns[i].sid))
          => LET ys == turns'[i].yielded
             IN /\ PersistedLocally(i)
                /\ \A m \in FinalMessages(i) : m.content = Concat(ys)
                /\ (\E k \in 1..Len(ys) : ys[k] = SafetyNotice) => Last(ys) = SafetyNotice]_vars

\* C4 amended: the same, unless streamChat rethrows what the Gateway raised
\* (status 404 or "Requested entity was not found"), in which case the content
\* persisted is "Error: " followed by the message of the error.
C4_ContentIsConcatenationUnlessRethrown ==
    [][\A i \in 1..Len(turns) :
          (/\ TurnEnds(i)
           /\ turns[i].kind = "text"
           /\ Saves(sessions, turns[i].uid, turns[i].sid))
          => LET ys == turns'[i].yielded
             IN /\ PersistedLocally(i)
                /\ \A m \in FinalMessages(i) :
                      IF turns'[i].outcome = "error"
                      THEN \E e \in Errors :
                              IsNotFound(e) /\ m.content = CatchPrefix \o e.message
                      ELSE m.content = Concat(ys)
                /\ (\E k \in 1..Len(ys) : ys[k] = SafetyNotice) => Last(ys) = SafetyNotice]_vars

\* A stream of two chunks, the last one filtered, has ended and the session
\* stored holds "a" \o "b" \o the notice for it.
C4_Witness ==
    \E i \in 1..Len(turns) :
        /\ turns[i].pc = "done" /\ turns[i].kind = "text" /\ turns[i].outcome = "ok"
        /\ turns[i].yielded = <<"a", "b", SafetyNotice>>
        /\ \E m \in WithId(StoredMessages(store, turns[i].uid, turns[i].sid), turns[i].botMsgId) :
              m.content = "ab" \o SafetyNotice

\* C5: when the Gateway raises status 429 during a text generation, before or
\* after fragments, the final message saved has exactly the fixed rate-limit
\* text as its content and no flag set.
C5_RateLimitReplaces ==
    [][\A i \in 1..Len(turns) :
          (/\ TurnEnds(i)
           /\ turns'[i].outcome = "rateLimited"
           /\ Saves(sessions, turns[i].uid, turns[i].sid))
          => \A m \in WithId(MessagesOf(sessions', turns[i].sid), turns[i].botMsgId) :
                m.content = RateLimitText /\ ~InProgress(m)]_vars

\* C6: a video job that took N poll cycles has made N status updates visible
\* when it ends, and the final message carries the video reference and no flag.
C6_StatusPerPoll ==
    [][\A i \in 1..Len(turns) :
          (/\ TurnEnds(i)
           /\ turns[i].kind = "video" /\ turns'[i].outcome = "ok"
           /\ Saves(sessions, turns[i].uid, turns[i].sid))
          => /\ turns[i].statusUpdates = turns[i].polls
             /\ \A m \in WithId(MessagesOf(sessions', turns[i].sid), turns[i].botMsgId) :
                   m.videoUri # "" /\ ~InProgress(m)]_vars

\* C7: once the feed of the identity has been processed the session list is
\* never empty.
C7_ListNeverEmpty == FeedProcessed => Len(sessions) > 0

\* the session of call tn as the identity that started it can get at it: as
\* listed, while that identity is the user, and as the backend holds it
Reachable(ss, st, u, tn) ==
    (IF u = tn.uid THEN {MessagesOf(ss, tn.sid)} ELSE {})
    \cup (IF IsStored(st, tn.uid, tn.sid) THEN {StoredMessages(st, tn.uid, tn.sid)} ELSE {})

\* C8: when a call of handleSendMessage or handleEditMessage returns, the
\* session it was started in, if there is still one for the identity that
\* started it, holds (as listed or as stored) a model message of that call
\* with no flag set.
C8_TurnEndsWithAnswer ==
    [][\A i \in 1..Len(turns) :
          (/\ TurnEnds(i)
           /\ (IsStored(store', turns[i].uid, turns[i].sid)
               \/ (user' = turns[i].uid /\ HasId(sessions', turns[i].sid))))
          => \E msgs \in Reachable(sessions', store', user', turns[i]) :
                \E m \in WithId(msgs, turns[i].botMsgId) :
                   m.role = "model" /\ ~InProgress(m)]_vars

\* C9: once the feed of the identity has been processed, currentSessionId is
\* not null and is the id of exactly one session of the list.
C9_OneActiveSession ==
    FeedProcessed =>
        /\ currentSessionId # Null
        /\ Cardinality({k \in 1..Len(sessions) : sessions[k].id = currentSessionId}) = 1

\* the placeholder of call i is listed in its session and no flag of it is set
Cleared(ss, tn) == \E m \in WithId(MessagesOf(ss, tn.sid), tn.botMsgId) : ~InProgress(m)

Flagged(ss, tn) == \E m \in WithId(MessagesOf(ss, tn.sid), tn.botMsgId) : InProgress(m)

\* C10: once the flag of the placeholder of a call has been cleared it is
\* never set again, and no message ever has more than one of the three flags.
C10_SettledOnce ==
    [][/\ \A i \in 1..Len(turns) :
             Cleared(sessions, turns[i]) => ~Flagged(sessions', turns[i])
       /\ \A k \in 1..Len(sessions') : \A j \in 1..Len(sessions'[k].messages) :
             Cardinality(Flags(sessions'[k].messages[j])) <= 1]_vars

\* C11: the mount effect with no stored identity makes an anonymous guest
\* identity; handleLogin replaces the identity by the one signed in; and
\* handleLogout leaves an anonymous guest identity made from the clock reading
\* of the sign-out, which is neither the identity signed out nor absent nor one
\* the store has sessions for.  After each of them, and after every other
\* step, localStorage 'neby_auth_user' holds the identity of `user`.
C11_IdentityLifecycle ==
    [][/\ authChecked' => (user' # NoUser /\ authStore' = user')
       /\ \A t \in Ticks(MaxEvents) \cup {Null} :
             /\ (Mount(t) /\ authStore = NoUser) => (user'.anon /\ user' = Guest(now'))
             /\ (Mount(t) /\ authStore # NoUser) => user' = authStore
             /\ HandleLogin(Alice, t) => user' = Alice
             /\ HandleLogout(t) =>
                   /\ user'.anon /\ user' = Guest(now')
                   /\ user' # user
                   /\ user' \notin DOMAIN store]_vars

\* A guest of the first load has signed in and out again: the identity is a
\* guest, stored, and not the guest of the first load, whose sessions the local
\* store still holds.
C11_Witness ==
    /\ authChecked /\ user.anon /\ authStore = user
    /\ \E g \in DOMAIN store : g.anon /\ g # user

Mirror(list) ==
    {[id |-> list[k].id, title |-> list[k].title,
      messages |-> Stringify(list[k]).messages] : k \in 1..Len(list)}

\* C14: with the local store, once the feed of the identity has been processed
\* and while no call of handleSendMessage or handleEditMessage is running, the
\* list stored for the identity holds the sessions of `sessions`, with the same
\* titles and the same messages.
C14_StoreMirrorsMemory ==
    (/\ FeedProcessed /\ IsMock(user)
     /\ \A i \in 1..Len(turns) : turns[i].pc = "done")
    => \A loaded \in Loaded(store, user) : Mirror(loaded) = Mirror(sessions)

\* With the local store and no call running, a send has ended with an answer,
\* the speech of a message has been cached, and the stored list mirrors
\* `sessions`, audio included.
C14_Witness ==
    /\ FeedProcessed /\ IsMock(user)
    /\ \A i \in 1..Len(turns) : turns[i].pc = "done"
    /\ \E i \in 1..Len(turns) : turns[i].op = "send" /\ turns[i].outcome = "ok"
    /\ \E k \in 1..Len(sessions) : \E j \in 1..Len(sessions[k].messages) :
          /\ sessions[k].messages[j].audioBase64 = Pcm
          /\ \E m \in WithId(StoredMessages(store, user, sessions[k].id),
                               sessions[k].messages[j].id) : m.audioBase64 = Pcm
    /\ \A loaded \in Loaded(store, user) : Mirror(loaded) = Mirror(sessions)

\* the identities a store write of this step can be for: the identity of the
\* handler that runs, or the one a running call or a pending title or speech
\* request captured
Writers ==
    {user, user'}
    \cup {turns[i].uid : i \in {j \in 1..Len(turns) : turns[j].pc # "done"}}
    \cup {c.uid : c \in titleCalls} \cup {c.uid : c \in speechCalls}

\* the identities whose stored list this step changes
Rewritten == {b \in DOMAIN store \cup DOMAIN store' : Load(store', b) # Load(store, b)}

\* C15: with the local store, a step changes the stored list of at most one
\* identity, the one the write was made for, and saveSession,
\* updateSessionTitle and deleteSession made for an identity leave the list of
\* every other identity as it is; and when an identity is subscribed, the
\* sessions delivered are those stored under it (or the one made for an empty
\* list), none being a session stored under another identity.
C15_StoreNamespaced ==
    [][/\ Cardinality(Rewritten) <= 1
       /\ Rewritten \subseteq Writers
       /\ \A a \in DOMAIN store : \A b \in DOMAIN store \ {a} :
             IsMock(a) =>
                \A k \in 1..Len(sessions) :
                   /\ Load(StoreSave(store, a, sessions[k]), b) = Load(store, b)
                   /\ Load(StoreTitle(store, a, sessions[k].id, DefaultTitle), b) = Load(store, b)
                   /\ Load(StoreDelete(store, a, sessions[k].id), b) = Load(store, b)
       /\ (user' # user /\ IsMock(user')) =>
             /\ \/ sessions' \in Loaded(store, user')
                \/ Load(store, user') = <<>> /\ sessions' = <<NewSession(now', CosmicTitle)>>
             /\ \A b \in DOMAIN store \ {user'} : \A k \in 1..Len(Load(store, b)) :
                   ~HasId(sessions', Load(store, b)[k].key)]_vars

\* Alice is subscribed after a guest has been: both have a stored list, the
\* guest's is not empty, Alice's has been written to, and the sessions listed
\* are the ones stored under Alice.
C15_Witness ==
    /\ ~configured /\ authChecked /\ user = Alice
    /\ \E g \in DOMAIN store : g.anon /\ Load(store, g) # <<>>
    /\ Load(store, Alice) # Load(StoreSave(<<>>, Alice, OldSession), Alice)
    /\ sessions \in Loaded(store, Alice)

\* call i starts in this step
TurnStarts(i) == i \in 1..Len(turns') /\ i > Len(turns)

\* C16: in the step in which handleSendMessage runs, the user message, with no
\* flag set, is appended to the messages of the active session, the store
\* holds the session with that message as its last by the time the generation
\* request is made, and the placeholder, when shown, comes after the user
\* message.
C16_UserMessageStoredFirst ==
    [][\A i \in 1..Len(turns') :
          (TurnStarts(i) /\ turns'[i].op = "send")
          => LET tn == turns'[i]
                 userMsg == Last(tn.history)
                 shown == MessagesOf(sessions', tn.sid)
             IN /\ tn.sid = currentSessionId
                /\ tn.history = Append(MessagesOf(sessions, tn.sid), userMsg)
                /\ userMsg.role = "user" /\ ~InProgress(userMsg)
                /\ StoredMessages(store', tn.uid, tn.sid)
                      = Stringify([messages |-> tn.history]).messages
                /\ \E k \in 1..Len(shown) :
                      /\ shown[k] = userMsg
                      /\ \A j \in 1..Len(shown) : shown[j].id = tn.botMsgId => j = k + 1]_vars

\* the stored session of call tn holds that many messages of its model message
StoredAnswers(st, tn) == Cardinality(WithId(StoredMessages(st, tn.uid, tn.sid), tn.botMsgId))

\* C17: while a text generation runs, a step that applies a fragment or a
\* citation batch leaves the store as it is, whatever the number of fragments;
\* and the step in which the stream completes, the session being listed,
\* writes the session: the store then holds exactly one message of the id of
\* the model message, with the whole content and no flag.
C17_OneWriteAtCompletion ==
    [][\A i \in 1..Len(turns) :
          (Running(i) /\ turns[i].kind = "text")
          => /\ turns'[i].yielded # turns[i].yielded /\ turns'[i].pc = "stream"
                => store' = store
             /\ (TurnEnds(i) /\ turns'[i].outcome = "ok"
                 /\ Saves(sessions, turns[i].uid, turns[i].sid))
                => /\ StoredAnswers(store', turns[i]) = 1
                   /\ \A m \in WithId(StoredMessages(store', turns[i].uid, turns[i].sid),
                                        turns[i].botMsgId) :
                         m.content = turns[i].fullContent /\ ~InProgress(m)]_vars

\* C18: when a notification of the feed with a list that is not empty is
\* processed (a snapshot of Firestore, or the call back of the local store on
\* subscribing), `sessions` becomes the notified list, whatever it held, a
\* placeholder or fragments of a running call included.
C18_FeedReplaces ==
    [][/\ \A t \in Ticks(MaxEvents) \cup {Null} :
             (FeedNotify(t) /\ Load(store, user) # <<>>)
             => sessions' \in Loaded(store, user)
       /\ (user' # user /\ IsMock(user') /\ Load(store, user') # <<>>)
             => sessions' \in Loaded(store, user')]_vars

\* A snapshot has been processed while the one call is streaming: the list is
\* the stored one, and the placeholder of the call, which the store never
\* held, is no longer in its session.
C18_Witness ==
    /\ authChecked /\ ~IsMock(user) /\ ~feedPending
    /\ Len(turns) = 1 /\ turns[1].pc = "stream" /\ turns[1].uid = user
    /\ HasId(sessions, turns[1].sid)
    /\ WithId(MessagesOf(sessions, turns[1].sid), turns[1].botMsgId) = {}
    /\ sessions \in Loaded(store, user)

\* what create, delete, rename and update leave in memory, whether or not the
\* backend took the write: the new session, listed last and active; no session
\* of the deleted id; the new title; the user message of a send; the final
\* message of a call that ends.  A refused write leaves the store as it was,
\* and a session that is listed and not stored stays listed until it is
\* deleted or a snapshot replaces the list.
Optimistic ==
    /\ Refused(user) => store' = store
    /\ \A t \in Ticks(MaxEvents) :
          CreateNewChat(t)
          => Last(sessions') = NewSession(t, DefaultTitle) /\ currentSessionId' = t
    /\ \A id \in SessionIds :
          /\ DeleteSession(id) => ~HasId(sessions', id)
          /\ \A title \in RenameTitles :
                RenameSession(id, title)
                => /\ HasId(sessions', id)
                   /\ \A k \in 1..Len(sessions') :
                         sessions'[k].id = id => sessions'[k].title = title
          /\ (~IsStored(store, user, id) /\ ~HasId(sessions', id))
                => (DeleteSession(id) \/ FeedNotify(Null))
    /\ \A i \in 1..Len(turns') :
          /\ (TurnStarts(i) /\ HasId(sessions, turns'[i].sid))
                => \E k \in 1..Len(MessagesOf(sessions', turns'[i].sid)) :
                      MessagesOf(sessions', turns'[i].sid)[k] = Last(turns'[i].history)
          /\ (TurnEnds(i) /\ Saves(sessions, turns[i].uid, turns[i].sid))
                => \E m \in WithId(MessagesOf(sessions', turns[i].sid), turns[i].botMsgId) :
                      ~InProgress(m)

\* the handler of this step, of those that write to the backend
StepOps ==
    {op \in {"create", "delete", "rename", "update"} :
        \/ op = "create" /\ \E t \in Ticks(MaxEvents) : CreateNewChat(t)
        \/ op = "delete" /\ \E id \in SessionIds : DeleteSession(id)
        \/ op = "rename" /\ \E id \in SessionIds, title \in RenameTitles :
                               RenameSession(id, title)
        \/ op = "update" /\ \E i \in 1..Len(turns') : TurnStarts(i) \/ TurnEnds(i)}

FailedCalls ==
    {call \in {"text", "image", "video", "saveSession", "updateSessionTitle", "deleteSession"} :
        \/ /\ call \in {"text", "image", "video"}
           /\ \E i \in 1..Len(turns) :
                 TurnEnds(i) /\ turns[i].kind = call /\ turns'[i].outcome = "error"
        \/ /\ call = "saveSession"
           /\ \/ \E i \in 1..Len(turns') :
                    /\ TurnStarts(i) /\ Saves(sessions, turns'[i].uid, turns'[i].sid)
                    /\ Rejected(turns'[i].uid, [messages |-> turns'[i].history])
              \/ \E i \in 1..Len(turns) :
                    /\ TurnEnds(i) /\ Saves(sessions, turns[i].uid, turns[i].sid)
                    /\ Rejected(turns[i].uid, [messages |-> turns[i].history])
              \/ /\ user # NoUser /\ Refused(user)
                 /\ \E t \in Ticks(MaxEvents) : CreateNewChat(t)
        \/ /\ call = "updateSessionTitle" /\ user # NoUser /\ Refused(user)
           /\ \E id \in SessionIds, title \in RenameTitles : RenameSession(id, title)
        \/ /\ call = "deleteSession" /\ user # NoUser /\ Refused(user)
           /\ \E id \in SessionIds : DeleteSession(id)}

\* the call the generation of that kind makes
GatewayCall(call) ==
    IF call = "text" THEN "streamChat"
    ELSE IF call = "image" THEN "generateImage"
    ELSE IF call = "video" THEN "generateVideo" ELSE call

\* C20: every call that fails in a step has a handler at the place that made
\* it: the failure of a Gateway call and of a store write ends in a catch and
\* in no promise that is rejected with nobody to take it.
C20_FailuresCaughtAtCallSite ==
    [][\A call \in FailedCalls : Handler(GatewayCall(call)) # "none"]_vars

\* the strings the earlier version of the catch of streamChat yields for a
\* status 401 or 403 and for a status 400 (part_002 479, 484), without their
\* leading emoji
AuthErrorText == "**Authentication Error**: Check your API key."
InvalidRequestText ==
    "**Invalid Request**: Check model compatibility with features like Search or Thinking."

\* the categories whose text is what the content c of a final message holds
\* after the fragments pre
Categories(c, pre) ==
    {cat \in {"rateLimited", "entitlement", "malformed", "generic"} :
        \/ cat = "rateLimited" /\ c = pre \o RateLimitText
        \/ cat = "entitlement"
              /\ \/ c = pre \o AuthErrorText
                 \/ \E e \in StreamErrors : c = CatchPrefix \o e.message
        \/ cat = "malformed" /\ c = pre \o InvalidRequestText
        \/ cat = "generic"
              /\ \E e \in StreamErrors : c = pre \o StreamErrorPrefix \o e.message \o "..."}

\* C21: when the Gateway raises an error during a text generation whose
\* session is listed, the final model message holds the text of exactly one
\* of the categories rate-limited, entitlement, malformed request and generic,
\* the rate-limit one if and only if the status is 429; what streamChat
\* yields for the error is the last thing it yields, and a call that has
\* ended yields nothing more.
C21_ErrorToOneCategory ==
    [][\A i \in 1..Len(turns) :
          /\ \A e \in StreamErrors :
                (StreamError(i, e) /\ Saves(sessions, turns[i].uid, turns[i].sid))
                => /\ TurnEnds(i)
                   /\ \A m \in FinalMessages(i) :
                         /\ Cardinality(Categories(m.content, turns[i].fullContent)) = 1
                         /\ ("rateLimited" \in Categories(m.content, turns[i].fullContent))
                               <=> (e.status = 429)
                         /\ ~InProgress(m)
                   /\ PersistedLocally(i)
                   /\ Len(turns'[i].yielded) \in {Len(turns[i].yielded), Len(turns[i].yielded) + 1}
          /\ turns[i].pc = "done" => turns'[i].yielded = turns[i].yielded]_vars

\* Each of the three texts the program has for an error is the content, or
\* the end of the content, of a stored final message: the rate-limit text
\* after a fragment, the generic text for a status 400, and "Error: " with the
\* message for a 404.
C21_Witness ==
    /\ \E i \in 1..Len(turns) :
          /\ turns[i].pc = "done" /\ turns[i].outcome = "rateLimited"
          /\ \E m \in WithId(StoredMessages(store, turns[i].uid, turns[i].sid), turns[i].botMsgId) :
                m.content = "a" \o RateLimitText
    /\ \E i \in 1..Len(turns) :
          /\ turns[i].pc = "done" /\ turns[i].outcome \in {"caught", "error"}
          /\ \E m \in WithId(StoredMessages(store, turns[i].uid, turns[i].sid), turns[i].botMsgId) :
                \/ m.content = StreamErrorPrefix \o "invalid argument" \o "..."
                \/ m.content = CatchPrefix \o NotFoundText

\* the calls whose await of aistudio.hasSelectedApiKey / openSelectKey, the
\* credential-selection flow, returns or throws in this step
KeyFlows == {i \in 1..Len(turns) : turns[i].pc = "key" /\ turns'[i].pc # "key"}

\* the content tells the user to see to the credentials: of the texts of the
\* program only the authentication text does
Instructs(c, pre) == c \in {AuthErrorText, pre \o AuthErrorText}

\* C22: when a Gateway call of a listed session fails with status 404 or
\* "Requested entity was not found", the final model message tells the user to
\* select the credentials again; and a call goes through the
\* credential-selection flow only in the step in which it fails that way.
C22_EntitlementReselect ==
    [][\A i \in 1..Len(turns) :
          /\ \A e \in Errors :
                (/\ StreamError(i, e) \/ CallError(i, e)
                 /\ IsNotFound(e)
                 /\ Saves(sessions, turns[i].uid, turns[i].sid))
                => \A m \in FinalMessages(i) : Instructs(m.content, turns[i].fullContent)
          /\ i \in KeyFlows
                => \E e \in Errors : IsNotFound(e) /\ (StreamError(i, e) \/ CallError(i, e))]_vars

\* the kind C23 gives a model identifier and an attachment
KindOf(model, attached) ==
    IF Includes(model, "veo") THEN "video"
    ELSE IF Includes(model, "image") /\ ~attached THEN "image"
    ELSE "text"

FlagOf(kind) ==
    IF kind = "video" THEN "isDirecting" ELSE IF kind = "image" THEN "isPainting" ELSE "isLoading"

\* the video an edit passes on with the message: its videoUri, unless that is
\* absent or the marker a sent message carries in place of the data
Attached(tn) == Last(tn.history).videoUri \notin {"", UndefinedProp, "Attached Video"}

\* C23: the kind of a turn is video when the model identifier contains 'veo',
\* otherwise image when it contains 'image' and no video is attached to the
\* request (for an edit: the message carries none but the marker of a sent
\* one), otherwise text, whatever type the composer passes; and the
\* placeholder, in the step that shows it, has exactly the flag of that kind.
C23_KindFromModelAndVideo ==
    [][/\ \A model \in Models, aistudio \in BOOLEAN, t \in Ticks(MaxEvents) :
             /\ \A in \in KindInputs, type \in Types, eager \in BOOLEAN :
                   OnSendMessage(in.text, in.images, type, in.video, model, t, aistudio, eager)
                   => Last(turns').kind = KindOf(model, in.video)
             /\ \A i \in 1..Len(MessagesOf(sessions, currentSessionId)) :
                   (HandleEditMessage(i, "yo", model, t, aistudio) /\ Len(turns') > Len(turns))
                   => Last(turns').kind = KindOf(model, Attached(Last(turns')))
       /\ \A i \in 1..Len(turns') :
             (/\ (TurnStarts(i) /\ turns'[i].pc # "key")
                    \/ (i \in KeyFlows /\ turns'[i].pc # "done")
              /\ HasId(sessions', turns'[i].sid))
             => /\ WithId(MessagesOf(sessions', turns'[i].sid), turns'[i].botMsgId) # {}
                /\ \A m \in WithId(MessagesOf(sessions', turns'[i].sid), turns'[i].botMsgId) :
                      Flags(m) = {FlagOf(turns'[i].kind)}]_vars

\* A video sent under the image model was taken as a text generation, which is
\* over, and an image generation started after it shows its placeholder with
\* isPainting and no other flag.
C23_Witness ==
    /\ \E i \in 1..Len(turns) :
          /\ turns[i].pc = "done" /\ turns[i].kind = "text" /\ turns[i].op = "send"
          /\ \E k \in 1..Len(MessagesOf(sessions, turns[i].sid)) :
                MessagesOf(sessions, turns[i].sid)[k].videoUri = "Attached Video"
    /\ \E i \in 1..Len(turns) :
          /\ turns[i].pc = "image"
          /\ \E m \in WithId(MessagesOf(sessions, turns[i].sid), turns[i].botMsgId) :
                Flags(m) = {"isPainting"}

RECURSIVE Settled(_)
\* the messages of a sequence that are no placeholders, as entries of a request
Settled(msgs) ==
    IF msgs = <<>> THEN <<>>
    ELSE (IF InProgress(Head(msgs)) THEN <<>>
          ELSE <<Content(Head(msgs).role, Head(msgs).content, Head(msgs).images)>>)
         \o Settled(Tail(msgs))

\* C24: the request of the text regeneration of an edited message holds the
\* messages that preceded the edited one, in order and without any
\* placeholder, and then the new text once, as the user turn; nothing that
\* followed the edited message and no second copy of it is in the request.
C24_EditedContext ==
    [][\A i \in 1..Len(MessagesOf(sessions, currentSessionId)),
          model \in Models, t \in Ticks(MaxEvents + 2) :
          (/\ HandleEditMessage(i, "yo", model, t, FALSE)
           /\ Len(turns') > Len(turns) /\ Last(turns').kind = "text")
          => LET messages == MessagesOf(sessions, currentSessionId)
             IN TextRequest(Last(turns').history, model)
                  = Settled(SubSeq(messages, 1, i - 1))
                    \o <<Content("user", "yo", messages[i].images)>>]_vars

\* the sessions a step of a call or of its title request is made for: the
\* call that starts, moves on or ends in this step, leaving aside the note
\* that another call has started
StepSids ==
    {turns'[i].sid : i \in {j \in 1..Len(turns') : TurnStarts(j)}}
    \cup {turns[i].sid : i \in {j \in 1..Len(turns) :
                [turns'[j] EXCEPT !.overlapped = turns[j].overlapped] # turns[j]}}
    \cup {c.sid : c \in titleCalls \ titleCalls'}

\* what the backend holds, for every identity, under the keys other than sid
OtherEntries(st, sid) ==
    UNION {{<<u, st[u][j]>> : j \in {k \in 1..Len(st[u]) : st[u][k].key # sid}} :
              u \in DOMAIN st}

\* C25: a call is started for the active session, and every step of it, the
\* placeholder, a fragment, the title and the final write, leaves all other
\* sessions as they are, in the list and in the backend, and leaves the list
\* its length and the active session its value, whichever session the user
\* has selected, created or deleted meanwhile.
C25_OnlyOwnSession ==
    [][/\ \A i \in 1..Len(turns') : TurnStarts(i) => turns'[i].sid = currentSessionId
       /\ \A sid \in StepSids :
             /\ Len(sessions') = Len(sessions)
             /\ \A k \in 1..Len(sessions) :
                   /\ sessions'[k].id = sessions[k].id
                   /\ sessions[k].id # sid => sessions'[k] = sessions[k]
             /\ OtherEntries(store', sid) = OtherEntries(store, sid)
             /\ currentSessionId' = currentSessionId]_vars

\* A call streams into its session, which has its fragment, while another
\* session, made after the call started, is the active one.
C25_Witness ==
    \E i \in 1..Len(turns) :
        /\ turns[i].pc = "stream" /\ turns[i].fullContent # ""
        /\ currentSessionId # turns[i].sid
        /\ HasId(sessions, currentSessionId)
        /\ \E m \in WithId(MessagesOf(sessions, turns[i].sid), turns[i].botMsgId) :
              m.content = turns[i].fullContent

\* C26: when a call ends and its session is listed, the messages of the
\* session become the history the call captured followed by its own model
\* message, whatever another call has written meanwhile; and when a call ends
\* while another call of the same session is still running, the history that
\* other call captured, which its end will write, holds no message of the
\* model message of the call that ends first.
C26_LastSettledWins ==
    [][\A i \in 1..Len(turns) :
          TurnEnds(i) =>
             /\ Saves(sessions, turns[i].uid, turns[i].sid)
                   => LET msgs == MessagesOf(sessions', turns[i].sid)
                      IN /\ Len(msgs) = Len(turns[i].history) + 1
                         /\ SubSeq(msgs, 1, Len(msgs) - 1) = turns[i].history
                         /\ Last(msgs).id = turns[i].botMsgId /\ ~InProgress(Last(msgs))
             /\ \A j \in 1..Len(turns) :
                   (/\ j # i /\ Running(j)
                    /\ turns[j].sid = turns[i].sid /\ turns[j].uid = turns[i].uid)
                   => WithId(turns[j].history, turns[i].botMsgId) = {}]_vars

\* C27: an overlay that has been closed has no live microphone track, no
\* connected source or script processor and no open audio context, whether it
\* was closed before or after the microphone was granted.
C27_OverlayTornDown ==
    \A k \in 1..Len(lives) :
        ~lives[k].mounted
        => lives[k].tracks # "live" /\ ~lives[k].connected /\ lives[k].contexts # "open"

\* C28: while a send or edit call has not settled, isLoading is true, so that
\* the composer, which sends only when isLoading is false, starts no new send;
\* this also after another call has settled in between.
C28_LoadingWhileInFlight ==
    \A i \in 1..Len(turns) : Running(i) => isLoading

\* C29: a notification of the feed (a snapshot of Firestore, or the call back
\* of the local store on subscribing) whose list contains the session that is
\* active when it arrives leaves currentSessionId as it is.
C29_FeedKeepsActive ==
    [][/\ \A t \in Ticks(MaxEvents) \cup {Null} :
             (FeedNotify(t) /\ HasId(sessions', currentSessionId))
             => currentSessionId' = currentSessionId
       /\ (user' # user /\ IsMock(user') /\ HasId(sessions', currentSessionId))
             => currentSessionId' = currentSessionId]_vars

\* the identifiers of a sequence of sessions or messages are pairwise distinct
Distinct(s) == \A a, b \in 1..Len(s) : a # b => s[a].id # s[b].id

\* C30: the sessions of the list have pairwise distinct identifiers and so
\* have the messages of each session, whatever was created, sent and edited,
\* as long as no handler reads an earlier clock than the one before it.
C30_IdsDistinct ==
    /\ Distinct(sessions)
    /\ \A k \in 1..Len(sessions) : Distinct(sessions[k].messages)

============================================================================
